---- MODULE Spec2Model ----
(***************************************************************************)
(* Whale-transaction monitor of Block_alert.py: the block cursor           *)
(* (BitcoinWhaleTracker.get_latest_block), the transaction classifier      *)
(* (process_transaction and the inline classification of                   *)
(* track_whale_transactions) and the DOJ address registry merge.           *)
(***************************************************************************)
EXTENDS Integers, Sequences, FiniteSets, TLC

(***************************************************************************)
(* Bounds of the model.                                                    *)
(***************************************************************************)
\* Heights the chain-data provider may report in the small cursor model.
MaxHeight == 3
\* Number of distinct block hashes the provider may report there.
NumHashes == 3
\* Blocks 0..ChainLen are reported in chain order before the provider of the
\* flush model starts to answer arbitrarily.
ChainLen == 999
\* Fresh hashes / heights the provider of the flush model may report after
\* the chain prefix.
ExtraHashes == 3
ExtraHeights == 4
\* The count of repeated reports saturates here.
MaxRepeats == 2
\* The chain the bot and the loops follow has the heights 0..MaxBlocks.
MaxBlocks == 3
\* A block holds at most this many transactions.
MaxBlockTxs == 3
\* The two pages of a cycle hold at most this many address matches.
MaxCandidates == 2
\* The heights the provider reports to the loop that skips a block.
MaxSkipHeight == 2

(***************************************************************************)
(* Program constants.                                                      *)
(***************************************************************************)
\* `if len(self.processed_blocks) > 1000`
max_processed_blocks == 1000

\* Python's None, and a value that is not None: an optional value is a
\* sequence of at most one element.
None == <<>>
Some(v) == <<v>>

(***************************************************************************)
(* State.                                                                  *)
(***************************************************************************)
VARIABLES
    last_block_height,  \* self.last_block_height: None or the baseline height
    processed_blocks,   \* self.processed_blocks: set of block hashes
    cur,                \* the latest get_latest_block call: arguments and result
    prev,               \* the call before it
    first_hash,         \* the hash of the first answered call, or None
    seen,               \* the hashes the provider has reported so far
    repeats,            \* answered calls that reported an already seen hash
    doj_addresses,      \* self.known_addresses['doj']['addresses']
    address_history,    \* self.doj_monitor.address_history
    history_file,       \* the file doj_address_history.json
    tx,                 \* the raw transaction handed to the classifier
    result,             \* what process_transaction made of it
    whale_tx,           \* what the loop body of track_whale_transactions made of it
    alert,              \* the latest TwitterBot.check_whale_alert call
    updater,            \* the latest cycle of monitor_loop: what it met and did
    doj_thread,         \* the thread of monitor_loop: position and locals
    main_thread,        \* the thread of track_whale_transactions: the same
    address_stats,      \* self.address_stats
    fetch_failed,       \* the blocks whose transactions could not be fetched
    returned,           \* the blocks get_latest_block has returned so far
    found_now           \* the addresses the scans of this process have found

cursorVars == <<last_block_height, processed_blocks, cur, prev, first_hash,
                seen, repeats>>

registryVars == <<doj_addresses, address_history, history_file>>

classifyVars == <<tx, result, whale_tx>>

loopVars == <<alert, updater, doj_thread, main_thread>>

threadVars == <<doj_thread, main_thread>>

statsVars == <<address_stats, fetch_failed, returned, found_now>>

vars == <<last_block_height, processed_blocks, cur, prev, first_hash, seen,
          repeats, doj_addresses, address_history, history_file, tx, result,
          whale_tx, alert, updater, doj_thread, main_thread, address_stats,
          fetch_failed, returned, found_now>>

\* No call made yet.
NoCall == [kind |-> "none", height |-> 0, hash |-> 0, ret |-> None, first |-> FALSE]

(***************************************************************************)
(* BitcoinWhaleTracker.get_latest_block                                    *)
(***************************************************************************)
\* Mutant: the height comparison accepts an equal height.
IsNewerOrEqual(current_height, last) == current_height >= last

\* `current_height > self.last_block_height`
IsNewer(current_height, last) == current_height > last

\* Mutant: the flush never happens.
AddProcessedNoFlush(blocks, current_hash) == blocks \cup {current_hash}

\* `if len(self.processed_blocks) > 1000: self.processed_blocks.clear()`
\* `self.processed_blocks.add(current_hash)`
AddProcessed(blocks, current_hash) ==
    (IF Cardinality(blocks) > max_processed_blocks THEN {} ELSE blocks)
        \cup {current_hash}

\* Mutant: the bootstrap call sets the baseline but reports no work.
BootstrapSkips(current_hash) == None

\* `return current_hash` of the bootstrap branch.
BootstrapReturn(current_hash) == Some(current_hash)

\* Mutant: the bootstrap call also records its hash.
BootstrapRecords(blocks, current_hash) == blocks \cup {current_hash}

\* The bootstrap branch returns without touching processed_blocks.
BootstrapBlocks(blocks, current_hash) == blocks

\* The body of the try block for a provider answer {height, hash}: the new
\* last_block_height, the new processed_blocks and the returned value.
get_latest_block(current_height, current_hash, last, blocks) ==
    IF last = None
        THEN [last |-> Some(current_height),
              blocks |-> BootstrapBlocks(blocks, current_hash),
              ret |-> BootstrapReturn(current_hash)]
    ELSE IF current_hash \in blocks
        THEN [last |-> last, blocks |-> blocks, ret |-> None]
    ELSE IF IsNewer(current_height, last[1])
        THEN [last |-> Some(current_height),
              blocks |-> AddProcessed(blocks, current_hash),
              ret |-> Some(current_hash)]
    ELSE [last |-> last, blocks |-> blocks, ret |-> None]

\* One call of get_latest_block whose request succeeded.
ObserveCall(current_height, current_hash) ==
    LET r == get_latest_block(current_height, current_hash,
                              last_block_height, processed_blocks)
    IN  /\ last_block_height' = r.last
        /\ processed_blocks' = r.blocks
        /\ cur' = [kind |-> "ok", height |-> current_height,
                   hash |-> current_hash, ret |-> r.ret,
                   first |-> (last_block_height = None)]
        /\ first_hash' = IF first_hash = None THEN Some(current_hash)
                                              ELSE first_hash
        /\ seen' = seen \cup {current_hash}
        /\ repeats' = IF current_hash \in seen /\ repeats < MaxRepeats
                         THEN repeats + 1 ELSE repeats

\* The same, with the call before it remembered.
Observe(current_height, current_hash) ==
    /\ ObserveCall(current_height, current_hash)
    /\ prev' = cur

\* One call whose request or JSON decoding raised: the except branch logs
\* and returns None.
ObserveErrorCall ==
    /\ cur' = [kind |-> "error", height |-> 0, hash |-> 0, ret |-> None,
               first |-> FALSE]
    /\ UNCHANGED <<last_block_height, processed_blocks, first_hash, seen,
                   repeats>>

\* The same, with the call before it remembered.
ObserveError ==
    /\ ObserveErrorCall
    /\ prev' = cur

CursorInit ==
    /\ last_block_height = None
    /\ processed_blocks = {}
    /\ cur = NoCall
    /\ prev = NoCall
    /\ first_hash = None
    /\ seen = {}
    /\ repeats = 0

(***************************************************************************)
(* The address registry: BitcoinWhaleTracker.known_addresses.  The lists   *)
(* written in the source are only ever searched with `in`, so each is      *)
(* modelled as a set.  The 'doj' entry, the only one that changes, is the  *)
(* variable doj_addresses, a list.                                         *)
(***************************************************************************)
known_addresses_static ==
    [
     binance |-> [type |-> "exchange", addresses |->
         {"3FaA4dJuuvJFyUHbqHLkZKJcuDPugvG3zE",
         "1NDyJtNTjmwk5xPNhjgAMu4HDHigtobu1s",
         "34xp4vRoCGJym3xR7yCVPFHoCNxv4Twseo",
         "1LQv8aKtQoiY5M5zkaG8RWL7LMwNzNsLfb",
         "1AC4fMwgY8j9onSbXEWeH6Zan8QGMSdmtA"}],
     coinbase |-> [type |-> "exchange", addresses |->
         {"3FzScn724foqFRWvL1kCZwitQvcxrnSQ4K",
         "3Kzh9qAqVWQhEsfQz7zEQL1EuSx5tyNLNS",
         "1CWYTCvwKfH5cWnX3VcAykgTsmjsuB3wXe",
         "1FxkfJQLJTXpW6QmxGT6hEo5DtBrnFpM3r",
         "1GR9qNz7zgtaW5HwwVpEJWMnGWhsbsieCG"}],
     grayscale |-> [type |-> "investment", addresses |->
         {"bc1qe7nps5yv7ruc884zscwrk9g2mxvqh7tkxfxwny",
         "bc1qkz7u6l5c8wqz8nc5yxkls2j8u4y2hkdzlgfnl4"}],
     microstrategy |-> [type |-> "corporate", addresses |->
         {"bc1qazcm763858nkj2dj986etajv6wquslv8uxwczt",
         "bc1qxy2kgdygjrsqtzq2n0yrf2493p83kkfjhx0wlh"}],
     blockfi |-> [type |-> "lending", addresses |->
         {"bc1q7kyrfmx49qa7n6g8mvlh36d4w9zf4lkwfg4j5q",
         "bc1qd73dxk2qfs2x5wv2sesvqrzgx7t5tqt4y5vpym"}],
     celsius |-> [type |-> "lending", addresses |->
         {"bc1q06ymtp6eq27mlz3ppv8z7esc8vq3v4nsjx9eng",
         "bc1qcex3e38gqh6qnzpn9jth5drgfyh5k9sjzq3rkm"}],
     kraken |-> [type |-> "exchange", addresses |->
         {"3FupZp77ySr7jwoLYEJ9mwzJpvoNBXsBnE",
         "3H5JTt42K7RmZtromfTSefcMEFMMe18pMD",
         "3AfP9N7KNq2pYXiGQdgNJy8SD2Mo7pQKUR",
         "3E1jkR1PJ8hFUqCkDjimwPoF2bZVrkqnpv"}],
     bitfinex |-> [type |-> "exchange", addresses |->
         {"3D2oetdNuZUqQHPJmcMDDHYoqkyNVsFk9r",
         "3JZq4atUahhuA9rLhXLMhhTo133J9rF97j",
         "3QW95MafxER9W7kWDcosQNdLk4Z36TYJZL"}],
     huobi |-> [type |-> "exchange", addresses |->
         {"3M219KR5vEneNb47ewrPfWyb5jQ2DjxRP6",
         "38WUPqGLXphpD1DwkMR8koGfd5UQfRnmrk",
         "1HckjUpRGcrrRAtFaaCAUaGjsPx9oYmLaZ"}],
     okex |-> [type |-> "exchange", addresses |->
         {"3LQUu4v9z6KNch71j7kbj8GPeAGUo1FW6a",
         "3LCGsSmfr24demGvriN4e3ft8wEcDuHFqh",
         "3FupZp77ySr7jwoLYEJ9mwzJpvoNBXsBnE"}],
     gemini |-> [type |-> "exchange", addresses |->
         {"3P3QsMVK89JBNqZQv5zMAKG8FK3kJM4rjt",
         "393HLwqnkrJMxYQTHjWBJPAKC3UG6k6FwB",
         "3AAzK4Xbu8PTM8AD7gw2XaMZavL6xoKWHQ"}],
     bitstamp |-> [type |-> "exchange", addresses |->
         {"3P3QsMVK89JBNqZQv5zMAKG8FK3kJM4rjt",
         "3D2oetdNuZUqQHPJmcMDDHYoqkyNVsFk9r",
         "3DbAZpqKhUBu4rqafHzj7hWquoBL6gFBvj"}],
     bittrex |-> [type |-> "exchange", addresses |->
         {"3KJrsjfg1dD6CrsTeHdM5SSk3PhXjNwhA7",
         "3QW95MafxER9W7kWDcosQNdLk4Z36TYJZL"}],
     kucoin |-> [type |-> "exchange", addresses |->
         {"3M219KR5vEneNb47ewrPfWyb5jQ2DjxRP6",
         "3H5JTt42K7RmZtromfTSefcMEFMMe18pMD",
         "3AfP9N7KNq2pYXiGQdgNJy8SD2Mo7pQKUR"}],
     gate_io |-> [type |-> "exchange", addresses |->
         {"3FupZp77ySr7jwoLYEJ9mwzJpvoNBXsBnE",
         "38WUPqGLXphpD1DwkMR8koGfd5UQfRnmrk"}],
     ftx |-> [type |-> "exchange", addresses |->
         {"3LQUu4v9z6KNch71j7kbj8GPeAGUo1FW6a",
         "3E1jkR1PJ8hFUqCkDjimwPoF2bZVrkqnpv"}],
     bybit |-> [type |-> "exchange", addresses |->
         {"3JZq4atUahhuA9rLhXLMhhTo133J9rF97j",
         "3QW95MafxER9W7kWDcosQNdLk4Z36TYJZL"}],
     cryptocom |-> [type |-> "exchange", addresses |->
         {"3P3QsMVK89JBNqZQv5zMAKG8FK3kJM4rjt",
         "3AAzK4Xbu8PTM8AD7gw2XaMZavL6xoKWHQ"}]
    ]

\* Addresses of the registry the transactions of the model are drawn from.
BinanceHot == "3FaA4dJuuvJFyUHbqHLkZKJcuDPugvG3zE"
CoinbaseHot == "3FzScn724foqFRWvL1kCZwitQvcxrnSQ4K"
KrakenHot == "3FupZp77ySr7jwoLYEJ9mwzJpvoNBXsBnE"
\* An address no entry lists, and an address a monitored DOJ page may show.
UnlistedAddr == "1UnlistedAddressxxxxxxxxxxxxxxxxxx"
DojAddr1 == "bc1qdojpage0000000000000000000000000000001"

\* The case fields extract_case_info may find next to an address.
CaseA == [case_number |-> "1:23-cr-00001"]
\* A second address and a second case for the pages the updater scans.
DojAddr2 == "bc1qdojpage0000000000000000000000000000002"
CaseB == [case_number |-> "1:24-cr-00002"]

(***************************************************************************)
(* DOJAddressMonitor.update_addresses followed by the merge of             *)
(* monitor_loop: one cycle of the updater thread.                          *)
(***************************************************************************)
\* load_history when no file exists.
EmptyHistory == [last_update |-> None, addresses |-> <<>>]

\* doj_address_history.json: not there, written in full with a history, or
\* opened for writing and left cut short by a json.dump that raised.
NoFile == [state |-> "absent", content |-> EmptyHistory]
Written(history) == [state |-> "written", content |-> history]
CutShort == [state |-> "cut short", content |-> EmptyHistory]

\* The timestamp datetime.now().isoformat() gives.
Now == Some("now")

\* `if address not in self.address_history['addresses']:` the entry is
\* written, for the addr_info records of `found` in order.  The mapping is
\* a sequence of <<address, addr_info>> pairs in insertion order.
HistoryKeys(addresses) == {addresses[i][1] : i \in DOMAIN addresses}

\* Mutant: nothing is written to the history.
RecordNothing(addresses, found) == addresses

\* Mutant: the entry of an address found again is overwritten.
RECURSIVE RecordLatest(_, _)
RecordLatest(addresses, found) ==
    IF found = <<>> THEN addresses
    ELSE LET addr_info == Head(found)
             next == IF addr_info.address \notin HistoryKeys(addresses)
                        THEN Append(addresses, <<addr_info.address, addr_info>>)
                        ELSE [i \in DOMAIN addresses |->
                                 IF addresses[i][1] = addr_info.address
                                    THEN <<addr_info.address, addr_info>>
                                    ELSE addresses[i]]
         IN  RecordLatest(next, Tail(found))

RECURSIVE RecordAll(_, _)
RecordAll(addresses, found) ==
    IF found = <<>> THEN addresses
    ELSE LET addr_info == Head(found)
             next == IF addr_info.address \notin HistoryKeys(addresses)
                        THEN Append(addresses, <<addr_info.address, addr_info>>)
                        ELSE addresses
         IN  RecordAll(next, Tail(found))

\* get_address_label, line 406:
\* `self.doj_monitor.address_history['addresses'].get(address, {})`, the
\* entry of the address or, for {}, None.
DojInfo(addresses, address) ==
    IF \E i \in DOMAIN addresses : addresses[i][1] = address
       THEN Some(addresses[CHOOSE i \in DOMAIN addresses :
                              addresses[i][1] = address][2])
       ELSE None

\* The items of a Python list, as `in` sees them.
ListItems(list) == {list[i] : i \in DOMAIN list}

\* `list(s)` of a set s: its elements once each, in an order the language
\* does not fix.
ListsOf(s) == {q \in [1..Cardinality(s) -> s] : ListItems(q) = s}

\* `doj_addresses.append(addr_info['address'])` over all that was found.
FoundAddresses(found) == [i \in DOMAIN found |-> found[i].address]

\* Mutant: the two lists are concatenated and no set is made of them.
MergeConcat(bucket, found) == {bucket \o FoundAddresses(found)}

\* `list(set(self.known_addresses['doj']['addresses'] + doj_addresses))`:
\* the lists the assignment may store.
MergeDoj(bucket, found) ==
    ListsOf(ListItems(bucket \o FoundAddresses(found)))

\* update_addresses from line 132 on: the history is extended, stamped and
\* saved.  `found` is what the two scans returned, forfeiture first;
\* `saved` tells whether save_history completed.  When it raises, the file
\* is as it was (open failed) or cut short.
update_addresses(found, saved) ==
    LET history == [last_update |-> Now,
                    addresses |-> RecordAll(address_history.addresses, found)]
    IN  /\ address_history' = history
        /\ IF saved THEN history_file' = Written(history)
                    ELSE history_file' \in {history_file, CutShort}

\* One cycle.  `found` is what the two scans returned, forfeiture first;
\* `saved` tells whether save_history completed.  When it raises, the
\* exception leaves update_addresses and is caught by monitor_loop, which
\* skips the merge; the file is then as it was (open failed) or cut short.
DojUpdateCycle(found, saved) ==
    /\ update_addresses(found, saved)
    /\ IF saved THEN doj_addresses' \in MergeDoj(doj_addresses, found)
                ELSE UNCHANGED doj_addresses

(***************************************************************************)
(* The pages the updater scans.  A page is a request that raised or the    *)
(* address matches of its text blocks, each with what                      *)
(* verify_bitcoin_address answered and what the four patterns of           *)
(* extract_case_info matched in the block (`matches`: nothing, or the      *)
(* dictionary of the groups).                                              *)
(***************************************************************************)
\* `self.sources`, in the order of the dictionary.
sources == <<"forfeiture", "usao">>

\* Mutant: a candidate without case information is kept, with no case.
CaseOrEmpty(matches) ==
    IF matches = <<>> THEN Some([case_number |-> "UNKNOWN"])
                      ELSE Some(matches[1])

\* `return info if info else None`
extract_case_info(matches) ==
    IF matches = <<>> THEN None ELSE Some(matches[1])

\* The inner loop of scan_doj_page over the candidates from position i on.
RECURSIVE scan_from(_, _, _)
scan_from(i, url, candidates) ==
    IF i > Len(candidates) THEN <<>>
    ELSE LET c == candidates[i]
             case_info == extract_case_info(c.matches)
             rest == scan_from(i + 1, url, candidates)
         IN  IF c.verified /\ case_info # None
                THEN <<[address |-> c.address, source_url |-> url,
                        case |-> case_info[1]]>> \o rest
                ELSE rest

\* scan_doj_page: any exception gives [].
scan_doj_page(url, page) ==
    IF page.raised THEN <<>> ELSE scan_from(1, url, page.candidates)

\* `all_new_addresses` of update_addresses, read category by category.
all_new_addresses(pages) ==
    scan_doj_page(sources[1], pages[1]) \o scan_doj_page(sources[2], pages[2])

\* `time.sleep(21600)` after a cycle and `time.sleep(300)` after an error.
sleep_after_update == 21600
sleep_after_error == 300

\* Mutant: the constructor fills the DOJ list from the loaded history.
DojListFromHistory(history) ==
    [i \in DOMAIN history.addresses |-> history.addresses[i][1]]

\* `'doj': {'type': 'government', 'addresses': []}`: the DOJ list the
\* constructor makes, whatever history load_history has read.
DojListAtStart(history) == <<>>

RegistryInit ==
    /\ doj_addresses = DojListAtStart(EmptyHistory)
    /\ history_file = NoFile
    /\ address_history = EmptyHistory

(***************************************************************************)
(* Raw transactions.  A dict key that may be absent is an optional value;  *)
(* a 'value' is a number of satoshi or something that is no number.  An    *)
(* input without 'prev_out' behaves as one whose prev_out has neither      *)
(* 'value' nor 'addr' (`inp.get('prev_out', {})`), so prev_out is not      *)
(* modelled as a level of its own.  Python integers are unbounded and the  *)
(* amounts exceed 2^31 satoshi, so an amount of b * 10^8 + s satoshi, with  *)
(* 0 <= s < 10^8, is kept as its sign and the two numbers b and s.          *)
(***************************************************************************)
\* `self.satoshi_to_btc = 100000000`
satoshi_to_btc == 100000000
\* `def __init__(self, min_btc=500)`
min_btc == 500

\* The amount of b * satoshi_to_btc + s satoshi.
Sat(b, s) == [neg |-> FALSE, btc |-> b, sat |-> s]

\* x + y of two amounts that are not negative.
AddSat(x, y) ==
    LET s == x.sat + y.sat
    IN  Sat(x.btc + y.btc + (s \div satoshi_to_btc), s % satoshi_to_btc)

\* x < y of two amounts that are not negative.
LessSat(x, y) == x.btc < y.btc \/ (x.btc = y.btc /\ x.sat < y.sat)

\* x - y of two amounts that are not negative; the result may be.
SubSat(x, y) ==
    LET big == IF LessSat(x, y) THEN y ELSE x
        small == IF LessSat(x, y) THEN x ELSE y
        borrow == IF big.sat < small.sat THEN 1 ELSE 0
    IN  [neg |-> LessSat(x, y),
         btc |-> big.btc - small.btc - borrow,
         sat |-> big.sat + borrow * satoshi_to_btc - small.sat]

NumVal(n) == [num |-> TRUE, n |-> n]
NotNum == [num |-> FALSE, n |-> Sat(0, 0)]

\* The threshold as an amount.
ThresholdSat == Sat(min_btc, 0)

TxAddrs == {BinanceHot, CoinbaseHot, KrakenHot, DojAddr1, UnlistedAddr}

\* Half the threshold, one satoshi less than it, the threshold, 600 BTC.
InAmounts == {Sat(min_btc \div 2, 0), Sat(min_btc - 1, satoshi_to_btc - 1),
              ThresholdSat, Sat(600, 0)}
\* Half the threshold and 599.9 BTC.
OutAmounts == {Sat(min_btc \div 2, 0), Sat(599, 9 * (satoshi_to_btc \div 10))}

TxItems(amounts) ==
    [value : {None, Some(NotNum)} \cup {Some(NumVal(n)) : n \in amounts},
     addr : {None} \cup {Some(a) : a \in TxAddrs}]

\* A second input or output: only its value counts.
SecondItem == [value |-> Some(NumVal(Sat(min_btc \div 2, 0))),
               addr |-> Some(UnlistedAddr)]

\* The list under 'inputs' or 'out': absent, empty, or one or two items.
TxLists(amounts) ==
    {None, Some(<<>>)}
        \cup {Some(<<i>>) : i \in TxItems(amounts)}
        \cup {Some(<<i, SecondItem>>) : i \in TxItems(amounts)}

\* 'hash' is there; 'time', epoch seconds, may be absent.
Txs == [inputs : TxLists(InAmounts), out : TxLists(OutAmounts),
        hash : {Some("tx-hash")}, time : {None, Some(1700000000)}]

\* No transaction handed over yet.
NoTx == [inputs |-> None, out |-> None, hash |-> None, time |-> None]

(***************************************************************************)
(* Python pieces the classifier is made of.                                *)
(***************************************************************************)
\* `tx.get('inputs', [])`, `tx.get('out', [])`
GetList(opt) == IF opt = None THEN <<>> ELSE opt[1]

\* `.get('value', 0)`
GetValue(item) ==
    IF item.value = None THEN NumVal(Sat(0, 0)) ELSE item.value[1]

\* `.get('addr', 'Unknown')`
GetAddr(item) == IF item.addr = None THEN "Unknown" ELSE item.addr[1]

\* `tx.get('hash', 'Unknown')`
GetHash(t) == IF t.hash = None THEN "Unknown" ELSE t.hash[1]

\* `datetime.fromtimestamp(tx.get('time', 0)).strftime('%Y-%m-%d %H:%M:%S')`:
\* the local date and time of the epoch second, 0 when 'time' is absent.
Timestamp(t) == [local_time_of |-> IF t.time = None THEN 0 ELSE t.time[1]]

\* sum(...) over the values of a list, left to right from 0: adding
\* something that is no number raises TypeError.
RECURSIVE SumFrom(_, _)
SumFrom(acc, items) ==
    IF items = <<>> THEN [raised |-> FALSE, total |-> acc]
    ELSE LET v == GetValue(Head(items))
         IN  IF v.num THEN SumFrom(AddSat(acc, v.n), Tail(items))
                      ELSE [raised |-> TRUE, total |-> Sat(0, 0)]

SumValues(items) == SumFrom(Sat(0, 0), items)

\* `x / self.satoshi_to_btc`: the number of BTC, as the fraction
\* (+/-)(btc + sat / d) (the float the program holds is the nearest double).
ToBtc(x, d) == [neg |-> x.neg, btc |-> x.btc, frac |-> x.sat, den |-> d]

\* Mutant: the text keeps 2 decimals, the other 6 are 0.
Fixed2(q) == [sign |-> IF q.neg THEN "-" ELSE "",
              whole |-> q.btc,
              decimals |-> (q.frac \div 1000000) * 1000000]

\* `f"{x:.8f}"`: the text made of the sign, the whole part and 8 decimals,
\* which for a fraction over 10^8 are its numerator.
Fixed8(q) == [sign |-> IF q.neg THEN "-" ELSE "",
              whole |-> q.btc,
              decimals |-> q.frac]

\* `float(tx['btc_volume'])`, as print_transaction reads the text back: the
\* number a text of 8 decimals stands for.
Float8(text) == [neg |-> text.sign = "-", btc |-> text.whole,
                 frac |-> text.decimals, den |-> satoshi_to_btc]

\* Mutant: the threshold itself does not pass.
StrictlyAbove(btc_volume) ==
    /\ ~btc_volume.neg
    /\ \/ btc_volume.btc > min_btc
       \/ btc_volume.btc = min_btc /\ btc_volume.frac > 0

\* `if btc_volume >= self.min_btc:`
AtLeastMin(btc_volume) == ~btc_volume.neg /\ btc_volume.btc >= min_btc

\* Mutant: a negative fee is floored to zero.
FeeClamped(total_input, total_output) ==
    ToBtc(IF LessSat(total_input, total_output)
             THEN Sat(0, 0) ELSE SubSat(total_input, total_output),
          satoshi_to_btc)

\* `fee_btc = (total_input - total_output) / self.satoshi_to_btc`
FeeBtc(total_input, total_output) ==
    ToBtc(SubSat(total_input, total_output), satoshi_to_btc)

\* `tx['inputs'][0]` and `tx['out'][0]` raise KeyError on a missing key and
\* IndexError on an empty list.
FirstRaises(opt) == opt = None \/ opt[1] = <<>>

\* The chain of tests both classification paths use; `labels` are the four
\* strings of the path.
TxType(sender, receiver, doj, labels) ==
    IF \/ sender \in known_addresses_static.binance.addresses
       \/ sender \in known_addresses_static.coinbase.addresses
        THEN labels.withdrawal
    ELSE IF \/ receiver \in known_addresses_static.binance.addresses
            \/ receiver \in known_addresses_static.coinbase.addresses
        THEN labels.deposit
    ELSE IF sender \in doj \/ receiver \in doj
        THEN labels.doj
    ELSE labels.other

\* The strings of process_transaction.
ProcessLabels == [withdrawal |-> "witdrawal", deposit |-> "deposit",
                  doj |-> "doj transfer", other |-> "alert #bitcoin"]

\* The strings of track_whale_transactions.
TrackLabels == [withdrawal |-> "WITHDRAWAL", deposit |-> "DEPOSIT",
                doj |-> "DOJ TRANSFER", other |-> "UNKNOWN"]

\* What a classification gives: the returned value (None or the record) and
\* whether an exception was raised on the way.
Returned(rec) == [ret |-> Some(rec), raised |-> FALSE, done |-> TRUE]
NotWhale == [ret |-> None, raised |-> FALSE, done |-> TRUE]
Raised == [ret |-> None, raised |-> TRUE, done |-> TRUE]

(***************************************************************************)
(* BitcoinWhaleTracker.process_transaction: any exception is caught, logged*)
(* and turned into None.                                                   *)
(***************************************************************************)
process_transaction(t, doj) ==
    LET total_input == SumValues(GetList(t.inputs))
        total_output == SumValues(GetList(t.out))
    IN  IF total_input.raised \/ total_output.raised THEN Raised
        ELSE LET btc_volume == ToBtc(total_input.total, satoshi_to_btc)
             IN  IF ~AtLeastMin(btc_volume) THEN NotWhale
                 ELSE IF FirstRaises(t.inputs) \/ FirstRaises(t.out)
                     THEN Raised
                 ELSE LET sender == GetAddr(t.inputs[1][1])
                          receiver == GetAddr(t.out[1][1])
                      IN  Returned(
                            [transaction_hash |-> GetHash(t),
                             timestamp |-> Timestamp(t),
                             btc_volume |-> btc_volume,
                             fee_btc |-> FeeBtc(total_input.total,
                                                total_output.total),
                             sender |-> sender,
                             receiver |-> receiver,
                             tx_type |-> TxType(sender, receiver, doj,
                                                ProcessLabels)])

(***************************************************************************)
(* The body of the `for tx in transactions` loop of                        *)
(* track_whale_transactions up to the record whale_tx.  Nothing is caught  *)
(* here: an exception leaves the loop.                                     *)
(***************************************************************************)
track_whale_tx(t, doj) ==
    LET total_input == SumValues(GetList(t.inputs))
        total_output == SumValues(GetList(t.out))
    IN  IF total_input.raised \/ total_output.raised THEN Raised
        ELSE LET btc_volume == ToBtc(total_input.total, satoshi_to_btc)
             IN  IF ~AtLeastMin(btc_volume) THEN NotWhale
                 ELSE IF FirstRaises(t.inputs) \/ FirstRaises(t.out)
                     THEN Raised
                 ELSE LET sender == GetAddr(t.inputs[1][1])
                          receiver == GetAddr(t.out[1][1])
                      IN  Returned(
                            [transaction_hash |-> GetHash(t),
                             timestamp |-> Timestamp(t),
                             btc_volume |-> Fixed8(btc_volume),
                             fee_btc |-> Fixed8(FeeBtc(total_input.total,
                                                       total_output.total)),
                             sender |-> sender,
                             receiver |-> receiver,
                             tx_type |-> TxType(sender, receiver, doj,
                                                TrackLabels)])

\* Nothing classified yet.
NotClassified == [ret |-> None, raised |-> FALSE, done |-> FALSE]

ClassifyInit ==
    /\ tx = NoTx
    /\ result = NotClassified
    /\ whale_tx = NotClassified

(***************************************************************************)
(* TwitterBot ("Alert shark tweets.py"): the whale alert it posts.         *)
(***************************************************************************)
\* The transactions of a block as the bot meets them.  The bot builds its
\* tracker with min_btc=100; these move 600 BTC or 50 BTC, or hold a value
\* that is no number, so that threshold and the default one agree on them.
WhaleTx == [inputs |-> Some(<<[value |-> Some(NumVal(Sat(600, 0))),
                               addr |-> Some(BinanceHot)]>>),
            out |-> Some(<<[value |-> Some(NumVal(Sat(599, 0))),
                            addr |-> Some(UnlistedAddr)]>>),
            hash |-> Some("tx-hash"), time |-> Some(1700000000)]
SmallTx == [inputs |-> Some(<<[value |-> Some(NumVal(Sat(50, 0))),
                               addr |-> Some(UnlistedAddr)]>>),
            out |-> Some(<<[value |-> Some(NumVal(Sat(49, 0))),
                            addr |-> Some(CoinbaseHot)]>>),
            hash |-> Some("tx-hash"), time |-> Some(1700000000)]
BrokenTx == [inputs |-> Some(<<[value |-> Some(NotNum),
                                addr |-> Some(UnlistedAddr)]>>),
             out |-> Some(<<>>),
             hash |-> Some("tx-hash"), time |-> None]

\* `self.api.update_status(status=message)` went through (True) or raised
\* (False, after logging): one call either way.
post_tweet(message, accepted) ==
    [posts |-> <<[message |-> message, posted |-> accepted]>>,
     ret |-> accepted]

\* `for tx in txs: if processed_tx := process_transaction(tx): ... return
\* self.post_tweet(message)`: the first transaction that gives a record is
\* posted and the call returns; with none the loop ends and False is
\* returned.  `i` is the position in txs.
RECURSIVE whale_alert_from(_, _, _, _)
whale_alert_from(i, txs, doj, accepted) ==
    IF i > Len(txs) THEN [posts |-> <<>>, ret |-> FALSE]
    ELSE LET processed_tx == process_transaction(txs[i], doj)
         IN  IF processed_tx.ret # None
                THEN post_tweet([tx |-> i,
                                 tx_type |-> processed_tx.ret[1].tx_type,
                                 btc_volume |-> processed_tx.ret[1].btc_volume],
                                accepted)
                ELSE whale_alert_from(i + 1, txs, doj, accepted)

\* TwitterBot.check_whale_alert, after get_latest_block returned block_hash
\* and, for a hash, get_block_transactions returned txs.
check_whale_alert(block_hash, txs, doj, accepted) ==
    IF block_hash = None THEN [posts |-> <<>>, ret |-> FALSE]
    ELSE whale_alert_from(1, txs, doj, accepted)

\* No call of check_whale_alert yet.
NoAlert == [block_hash |-> None, txs |-> <<>>, posts |-> <<>>, ret |-> FALSE]

\* No cycle of monitor_loop yet.
NoCycle == [slept |-> 0, met |-> {}]

\* `time.sleep(30)` of track_whale_transactions, lines 586 and 591.
sleep_between_polls == 30

(***************************************************************************)
(* self.address_stats, a defaultdict: an address that has no entry yet     *)
(* reads as the default entry, so the dictionary is a function on the      *)
(* addresses a transaction can name, all of them at the default at first.  *)
(* The totals are amounts in satoshi; btc_volume is that amount over       *)
(* satoshi_to_btc.                                                         *)
(***************************************************************************)
StatsDefault ==
    [received_count |-> 0, sent_count |-> 0, total_received |-> Sat(0, 0),
     total_sent |-> Sat(0, 0), last_seen |-> None]

\* 'Unknown' is what .get('addr', 'Unknown') gives for an absent address.
StatsAddrs == TxAddrs \cup {DojAddr2, "Unknown"}

\* `total += btc_volume`
AddVolume(total, btc_volume) ==
    AddSat(total, Sat(btc_volume.btc, btc_volume.frac))

\* Lines 576-578: the sender's entry.
RecordSent(entry, btc_volume, timestamp) ==
    [entry EXCEPT !.sent_count = @ + 1,
                  !.total_sent = AddVolume(@, btc_volume),
                  !.last_seen = Some(timestamp)]

\* Mutant: the receiver is counted as a sender.
RecordReceivedAsSent(entry, btc_volume, timestamp) ==
    [entry EXCEPT !.sent_count = @ + 1,
                  !.total_sent = AddVolume(@, btc_volume),
                  !.last_seen = Some(timestamp)]

\* Lines 580-582: the receiver's entry.
RecordReceived(entry, btc_volume, timestamp) ==
    [entry EXCEPT !.received_count = @ + 1,
                  !.total_received = AddVolume(@, btc_volume),
                  !.last_seen = Some(timestamp)]

\* Lines 576-582, in their order: the sender's entry, then the receiver's,
\* which is the same entry when the two addresses are the same.
update_address_stats(stats, sender, receiver, btc_volume, timestamp) ==
    LET sent == [stats EXCEPT
                    ![sender] = RecordSent(@, btc_volume, timestamp)]
    IN  [sent EXCEPT ![receiver] = RecordReceived(@, btc_volume, timestamp)]

\* The float btc_volume of the loop body for a transaction whose sums do not
\* raise.
BtcVolume(t) == ToBtc(SumValues(GetList(t.inputs)).total, satoshi_to_btc)

\* `whale_count += 1` is reached: the two sums did not raise and the volume
\* is at least min_btc.
CountedAsWhale(t) ==
    /\ ~SumValues(GetList(t.inputs)).raised
    /\ ~SumValues(GetList(t.out)).raised
    /\ AtLeastMin(BtcVolume(t))

\* The statistics after the loop body for transaction t: updated when the
\* body got as far as the record whale_tx (print_transaction catches its
\* own exceptions), as they were when it did not.
stats_after(t, doj, stats) ==
    LET r == track_whale_tx(t, doj)
    IN  IF r.ret = None THEN stats
        ELSE update_address_stats(stats, r.ret[1].sender, r.ret[1].receiver,
                                  BtcVolume(t), r.ret[1].timestamp)

\* get_block_transactions: the 'tx' list of the response, or [] when the
\* request or the decoding raised.
get_block_transactions(response) ==
    IF response.raised THEN <<>> ELSE response.tx

StatsInit ==
    /\ address_stats = [a \in StatsAddrs |-> StatsDefault]
    /\ fetch_failed = {}
    /\ returned = {}
    /\ found_now = {}

\* The thread of monitor_loop, started by the constructor: about to call
\* update_addresses, with no merge made so far.
DojThreadInit ==
    [pc |-> "update", slept |-> 0, failed |-> FALSE, found |-> <<>>,
     publishing |-> <<>>, pre |-> {}, post |-> {}]

\* The thread of track_whale_transactions at the top of `while True`:
\* processed_count and whale_count are not bound yet.
MainThreadInit ==
    [pc |-> "poll", slept |-> 0, raised |-> FALSE, transactions |-> <<>>,
     counts |-> None, mid_merge |-> FALSE]

LoopInit ==
    /\ alert = NoAlert
    /\ updater = NoCycle
    /\ doj_thread = DojThreadInit
    /\ main_thread = MainThreadInit

(***************************************************************************)
(* The small cursor model: the provider answers any height and hash.       *)
(***************************************************************************)
Heights == 0..MaxHeight
Hashes == 1..NumHashes

ObserveAny ==
    /\ \E h \in Heights, x \in Hashes : Observe(h, x)
    /\ UNCHANGED <<registryVars, classifyVars, statsVars, loopVars>>

ObserveFailed ==
    /\ ObserveError
    /\ UNCHANGED <<registryVars, classifyVars, statsVars, loopVars>>

Init ==
    CursorInit /\ RegistryInit /\ ClassifyInit /\ LoopInit /\ StatsInit

Next == ObserveAny \/ ObserveFailed

Spec == Init /\ [][Next]_vars

(***************************************************************************)
(* The flush model: the provider first reports the blocks 0..ChainLen in   *)
(* chain order (height i, hash i), which fills processed_blocks up to the  *)
(* limit, and then answers any of a few old and new heights and hashes.    *)
(***************************************************************************)
NextChainBlock == IF last_block_height = None THEN 0
                                              ELSE last_block_height[1] + 1

ObserveChain ==
    /\ NextChainBlock <= ChainLen
    /\ ObserveCall(NextChainBlock, NextChainBlock)
    /\ UNCHANGED <<prev, registryVars, classifyVars, statsVars, loopVars>>

LateHeights == {0} \cup (ChainLen..(ChainLen + ExtraHeights))
LateHashes == {0, 1} \cup ((ChainLen + 1)..(ChainLen + ExtraHashes))

ObserveLate ==
    /\ NextChainBlock > ChainLen
    /\ \E h \in LateHeights, x \in LateHashes : ObserveCall(h, x)
    /\ UNCHANGED <<prev, registryVars, classifyVars, statsVars, loopVars>>

NextFlush == ObserveChain \/ ObserveLate

SpecFlush == Init /\ [][NextFlush]_vars

(***************************************************************************)
(* The same chain with a provider that reports every hash with one height  *)
(* (the block at height i has hash i): it reports the blocks 0..ChainLen   *)
(* in chain order, any of them more than once in a row, and after them old *)
(* blocks again and new ones, in any order.                                *)
(* The returned blocks are kept.                                           *)
(***************************************************************************)
ObserveReturned(current_height, current_hash) ==
    /\ ObserveCall(current_height, current_hash)
    /\ returned' = IF cur'.ret = None
                      THEN returned
                      ELSE returned \cup {<<current_height, current_hash>>}

OnceChain ==
    /\ NextChainBlock <= ChainLen
    /\ \E b \in {NextChainBlock - 1, NextChainBlock} :
          b >= 0 /\ ObserveReturned(b, b)
    /\ UNCHANGED <<prev, registryVars, classifyVars, address_stats,
                   fetch_failed, found_now, loopVars>>

\* The bootstrap block, the first recorded one, the last of the chain and
\* the blocks after it.
OnceBlocks == {0, 1} \cup (ChainLen..(ChainLen + ExtraHashes))

OnceLate ==
    /\ NextChainBlock > ChainLen
    /\ \E b \in OnceBlocks : ObserveReturned(b, b)
    /\ UNCHANGED <<prev, registryVars, classifyVars, address_stats,
                   fetch_failed, found_now, loopVars>>

NextOnce == OnceChain \/ OnceLate

SpecOnce == Init /\ [][NextOnce]_vars

(***************************************************************************)
(* The small cursor model with the returned blocks kept: any height with   *)
(* either of two hashes, in any order.                                     *)
(***************************************************************************)
ObserveAnyReturned ==
    /\ \E h \in Heights, x \in 1..2 : ObserveReturned(h, x)
    /\ UNCHANGED <<prev, registryVars, classifyVars, address_stats,
                   fetch_failed, found_now, loopVars>>

ObserveFailedReturned ==
    /\ ObserveErrorCall
    /\ UNCHANGED <<prev, registryVars, classifyVars, statsVars, loopVars>>

NextTwice == ObserveAnyReturned \/ ObserveFailedReturned

SpecTwice == Init /\ [][NextTwice]_vars

(***************************************************************************)
(* The classifier model: transactions of Txs are classified by both paths  *)
(* while the updater thread extends the DOJ bucket.                        *)
(***************************************************************************)
\* Any transaction of Txs may be the one a block holds.
InitClassify ==
    /\ CursorInit
    /\ RegistryInit
    /\ tx \in Txs
    /\ result = NotClassified
    /\ whale_tx = NotClassified
    /\ LoopInit
    /\ StatsInit

\* The transaction is handed to process_transaction and to the loop body.
ClassifyTx ==
    /\ result' = process_transaction(tx, ListItems(doj_addresses))
    /\ whale_tx' = track_whale_tx(tx, ListItems(doj_addresses))
    /\ UNCHANGED <<tx, cursorVars, registryVars, loopVars, statsVars>>

\* What the scans of one cycle may return here: nothing or one address.
FoundOne == {<<>>,
             <<[address |-> DojAddr1, source_url |-> "forfeiture",
                case |-> CaseA]>>}

DojUpdate ==
    /\ \E found \in FoundOne, saved \in BOOLEAN : DojUpdateCycle(found, saved)
    /\ UNCHANGED <<cursorVars, classifyVars, statsVars, loopVars>>

NextClassify == ClassifyTx \/ DojUpdate

SpecClassify == InitClassify /\ [][NextClassify]_vars

(***************************************************************************)
(* The bot model: the provider reports the chain block by block, or the    *)
(* tip once more, and each block holds up to MaxBlockTxs transactions.     *)
(***************************************************************************)
\* The provider answers with the tip again or with the block after it;
\* the hash of the block of height h is h.
ChainAnswers == {h \in {NextChainBlock - 1, NextChainBlock} :
                    h >= 0 /\ h <= MaxBlocks}

RECURSIVE SeqsUpTo(_, _)
SeqsUpTo(n, S) ==
    IF n = 0 THEN {<<>>}
    ELSE LET shorter == SeqsUpTo(n - 1, S)
         IN  shorter \cup {Append(q, e) : q \in shorter, e \in S}

\* What get_block_transactions may return ([] when the request raised).
BlockTxs == SeqsUpTo(MaxBlockTxs, {WhaleTx, SmallTx, BrokenTx})

\* One call of check_whale_alert whose latestblock request was answered.
CheckWhaleAlert ==
    /\ \E h \in ChainAnswers : ObserveCall(h, h)
    /\ \E txs \in BlockTxs, accepted \in BOOLEAN :
          LET r == check_whale_alert(cur'.ret, txs,
                                     ListItems(doj_addresses), accepted)
          IN  alert' = [block_hash |-> cur'.ret,
                        txs |-> IF cur'.ret = None THEN <<>> ELSE txs,
                        posts |-> r.posts, ret |-> r.ret]
    /\ UNCHANGED <<prev, registryVars, classifyVars, statsVars, updater,
                   threadVars>>

\* One call whose latestblock request raised: block_hash is None.
CheckWhaleAlertDown ==
    /\ ObserveError
    /\ alert' = [block_hash |-> None, txs |-> <<>>,
                 posts |-> check_whale_alert(None, <<>>, {}, FALSE).posts,
                 ret |-> check_whale_alert(None, <<>>, {}, FALSE).ret]
    /\ UNCHANGED <<registryVars, classifyVars, statsVars, updater, threadVars>>

NextBot == CheckWhaleAlert \/ CheckWhaleAlertDown

SpecBot == Init /\ [][NextBot]_vars

(***************************************************************************)
(* The updater model: cycle after cycle of monitor_loop, each over two     *)
(* pages that hold up to MaxCandidates address matches between them.       *)
(***************************************************************************)
\* An address match of a page: the address verified, with no case
\* information in its text block or with one of two cases, or not verified.
Candidates ==
    [address : {DojAddr1}, verified : {TRUE},
     matches : {<<>>, <<CaseA>>, <<CaseB>>}]
        \cup {[address |-> DojAddr1, verified |-> FALSE, matches |-> <<CaseA>>]}

PageDown == [raised |-> TRUE, candidates |-> <<>>]
Pages == {PageDown} \cup
         {[raised |-> FALSE, candidates |-> q] :
             q \in SeqsUpTo(MaxCandidates, Candidates)}

CyclePages ==
    {pages \in Pages \X Pages :
        Len(pages[1].candidates) + Len(pages[2].candidates) <= MaxCandidates}

\* The addr_info the history holds for an address that is a key.
InfoOf(addresses, address) ==
    LET i == CHOOSE i \in DOMAIN addresses : addresses[i][1] = address
    IN  addresses[i][2]

\* The two pages were read and hold one address match between them, a
\* verified one whose text block gives no case information.
OnlyUncased(pages) ==
    LET all == pages[1].candidates \o pages[2].candidates
    IN  /\ ~pages[1].raised /\ ~pages[2].raised
        /\ Len(all) = 1
        /\ all[1].verified /\ all[1].matches = <<>>

\* What a cycle met, as a set of marks:
\*   "scan raised"   a request or the parsing of a page raised;
\*   "only uncased"  OnlyUncased holds of its pages;
\*   "known key"     it found an address that was a key of the history;
\*   "other case"    it found a key of the history with another addr_info;
\*   "twice"         it found one address twice with different addr_info;
\*   "in bucket"     it found an address that was in the DOJ list;
\*   "all in bucket" it found addresses, all of them in the DOJ list.
Met(pages, found, addresses, bucket) ==
    {"scan raised" : k \in {k \in {1, 2} : pages[k].raised}}
    \cup {"only uncased" : k \in {k \in {1} : OnlyUncased(pages)}}
    \cup {"known key" : i \in {i \in DOMAIN found :
                          found[i].address \in HistoryKeys(addresses)}}
    \cup {"other case" : i \in {i \in DOMAIN found :
                          /\ found[i].address \in HistoryKeys(addresses)
                          /\ InfoOf(addresses, found[i].address) # found[i]}}
    \cup {"twice" : p \in {p \in (DOMAIN found) \X (DOMAIN found) :
                          /\ found[p[1]].address = found[p[2]].address
                          /\ found[p[1]] # found[p[2]]}}
    \cup {"in bucket" : i \in {i \in DOMAIN found :
                          found[i].address \in ListItems(bucket)}}
    \cup {"all in bucket" : i \in {i \in DOMAIN found :
                          ListItems(FoundAddresses(found))
                              \subseteq ListItems(bucket)}}

\* One iteration of `while True` in monitor_loop, with its sleep, over
\* the pages of `pageset`.
Cycle(pageset) ==
    /\ \E pages \in pageset, saved \in BOOLEAN :
          LET found == all_new_addresses(pages)
          IN  /\ DojUpdateCycle(found, saved)
              /\ updater' =
                    [slept |-> IF saved THEN sleep_after_update
                                        ELSE sleep_after_error,
                     met |-> Met(pages, found, address_history.addresses,
                                 doj_addresses)]
    /\ UNCHANGED <<cursorVars, classifyVars, statsVars, alert, threadVars>>

UpdaterCycle == Cycle(CyclePages)

\* The process is started again: the tracker is built anew, with an empty
\* DOJ list and a cursor that has seen nothing, and load_history reads the
\* file.  A file cut short makes json.load raise in the constructor, so the
\* process does not come up from it.
Restart ==
    /\ history_file.state # "cut short"
    /\ address_history' = history_file.content
    /\ doj_addresses' = DojListAtStart(history_file.content)
    /\ updater' = NoCycle
    /\ found_now' = {}
    /\ tx' = NoTx
    /\ result' = NotClassified
    /\ whale_tx' = NotClassified
    /\ UNCHANGED <<history_file, cursorVars, address_stats, fetch_failed,
                   returned, alert, threadVars>>

NextUpdater == UpdaterCycle \/ Restart

SpecUpdater == Init /\ [][NextUpdater]_vars

(***************************************************************************)
(* The merge model: the forfeiture page lists up to MaxCandidates verified *)
(* matches of two addresses, each with a case; the other page is empty.    *)
(***************************************************************************)
MergeCandidates ==
    [address : {DojAddr1, DojAddr2}, verified : {TRUE}, matches : {<<CaseA>>}]

MergePages ==
    {<<[raised |-> FALSE, candidates |-> q],
       [raised |-> FALSE, candidates |-> <<>>]>> :
        q \in SeqsUpTo(MaxCandidates, MergeCandidates)}

\* What a cycle over pages of MergePages may hand to the merge.
MergeFound == {all_new_addresses(pages) : pages \in MergePages}

MergeCycle == Cycle(MergePages)

NextMerge == MergeCycle

SpecMerge == Init /\ [][NextMerge]_vars

(***************************************************************************)
(* The two loops, step by step: the thread of monitor_loop and the thread  *)
(* of track_whale_transactions run side by side on the shared DOJ list.    *)
(***************************************************************************)
\* The pages of a cycle here: a page is down, empty, or lists both
\* addresses, verified, each with a case.
BothListed ==
    [raised |-> FALSE,
     candidates |-> <<[address |-> DojAddr1, verified |-> TRUE,
                       matches |-> <<CaseA>>],
                      [address |-> DojAddr2, verified |-> TRUE,
                       matches |-> <<CaseB>>]>>]
NoneListed == [raised |-> FALSE, candidates |-> <<>>]
LoopPages == {PageDown, NoneListed, BothListed} \X {PageDown, NoneListed}

\* Mutant: the found addresses are appended to the shared list one by one,
\* so that the list passes through every prefix of the merge.
RECURSIVE PublishedInPlace(_, _)
PublishedInPlace(old, merged) ==
    IF ListItems(merged) \subseteq ListItems(old) THEN <<merged>>
    ELSE LET a == CHOOSE a \in ListItems(merged) : a \notin ListItems(old)
         IN  <<Append(old, a)>> \o PublishedInPlace(Append(old, a), merged)

\* `self.known_addresses['doj']['addresses'] = list(set(...))`: the values
\* the shared entry takes while the statement runs.  The new list is built
\* aside and stored by one assignment.
Published(old, merged) == <<merged>>

\* Mutant: the exception is not caught and ends the thread.
DojUncaught ==
    [doj_thread EXCEPT !.pc = "terminated", !.failed = TRUE, !.found = <<>>]

\* The except branch of monitor_loop: log and `time.sleep(300)`.
DojCaught ==
    [doj_thread EXCEPT !.pc = "sleeping", !.failed = TRUE, !.found = <<>>,
                       !.slept = sleep_after_error]

\* update_addresses is called; an exception of save_history ends the try
\* block.
DojUpdateAddresses ==
    /\ doj_thread.pc = "update"
    /\ \E pages \in LoopPages, saved \in BOOLEAN :
          LET found == all_new_addresses(pages)
              scan_raised == pages[1].raised \/ pages[2].raised
          IN  /\ update_addresses(found, saved)
              /\ doj_thread' =
                    IF saved
                       THEN [doj_thread EXCEPT !.pc = "merge",
                                               !.failed = scan_raised,
                                               !.found = found]
                       ELSE DojCaught
    /\ UNCHANGED <<doj_addresses, cursorVars, classifyVars, statsVars, alert,
                   updater,
                   main_thread>>

\* Lines 346-353 up to the assignment: the old list is read and the new
\* one is built from it.
DojBuildList ==
    /\ doj_thread.pc = "merge"
    /\ \E merged \in MergeDoj(doj_addresses, doj_thread.found) :
          doj_thread' =
              [doj_thread EXCEPT !.pc = "assign",
                                 !.publishing = Published(doj_addresses,
                                                          merged),
                                 !.pre = ListItems(doj_addresses),
                                 !.post = ListItems(merged)]
    /\ UNCHANGED <<registryVars, cursorVars, classifyVars, statsVars, alert,
                   updater,
                   main_thread>>

\* The assignment, and after it the log line and `time.sleep(21600)`.
DojAssign ==
    /\ doj_thread.pc = "assign"
    /\ doj_addresses' = Head(doj_thread.publishing)
    /\ doj_thread' =
          IF Tail(doj_thread.publishing) = <<>>
             THEN [doj_thread EXCEPT !.pc = "sleeping", !.publishing = <<>>,
                                     !.found = <<>>,
                                     !.slept = sleep_after_update]
             ELSE [doj_thread EXCEPT
                      !.publishing = Tail(doj_thread.publishing)]
    /\ UNCHANGED <<address_history, history_file, cursorVars, classifyVars,
                   statsVars,
                   alert, updater, main_thread>>

\* The sleep is over: `while True` starts the next cycle.
DojWake ==
    /\ doj_thread.pc = "sleeping"
    /\ doj_thread' = [doj_thread EXCEPT !.pc = "update", !.slept = 0,
                                        !.failed = FALSE]
    /\ UNCHANGED <<registryVars, cursorVars, classifyVars, statsVars, alert,
                   updater,
                   main_thread>>

\* The thread is a daemon (`daemon=True`): it runs as long as the main
\* thread does.
DojStep ==
    /\ main_thread.pc # "terminated"
    /\ (DojUpdateAddresses \/ DojBuildList \/ DojAssign \/ DojWake)

\* Whale transactions that reach the DOJ tests of the loop body: one sent
\* from the first address of the pages, one received by the second.
DojSendTx == [inputs |-> Some(<<[value |-> Some(NumVal(Sat(600, 0))),
                                 addr |-> Some(DojAddr1)]>>),
              out |-> Some(<<[value |-> Some(NumVal(Sat(599, 0))),
                              addr |-> Some(UnlistedAddr)]>>),
              hash |-> Some("tx-hash"), time |-> Some(1700000000)]
DojRecvTx == [inputs |-> Some(<<[value |-> Some(NumVal(Sat(600, 0))),
                                 addr |-> Some(UnlistedAddr)]>>),
              out |-> Some(<<[value |-> Some(NumVal(Sat(599, 0))),
                              addr |-> Some(DojAddr2)]>>),
              hash |-> Some("tx-hash"), time |-> Some(1700000000)]

\* What get_block_transactions returns here: no transaction (also when its
\* request raised), or one or two of three kinds.
LoopTxs == {DojSendTx, DojRecvTx, BrokenTx}
LoopBlocks == {<<>>} \cup {<<t>> : t \in LoopTxs}
                     \cup {<<t, DojRecvTx>> : t \in LoopTxs}

\* Mutant: the exception is not caught and ends the thread.
MainUncaught ==
    [main_thread EXCEPT !.pc = "terminated", !.raised = TRUE,
                        !.transactions = <<>>]

\* The except branch of track_whale_transactions: log and `time.sleep(30)`.
MainCaught ==
    [main_thread EXCEPT !.pc = "sleeping", !.raised = TRUE,
                        !.transactions = <<>>,
                        !.slept = sleep_between_polls]

\* Lines 520-525: get_latest_block is called; for a hash the transactions
\* are fetched and the two counters are set to 0.
MainPoll ==
    /\ main_thread.pc = "poll"
    /\ \/ \E h \in ChainAnswers : ObserveCall(h, h)
       \/ ObserveErrorCall
    /\ UNCHANGED prev
    /\ IF cur'.ret = None
          THEN main_thread' = [main_thread EXCEPT !.pc = "log"]
          ELSE \E txs \in LoopBlocks :
                  main_thread' =
                      [main_thread EXCEPT
                          !.pc = "tx",
                          !.transactions = txs,
                          !.counts = Some([processed_count |-> 0,
                                           whale_count |-> 0])]
    /\ UNCHANGED <<registryVars, classifyVars, statsVars, alert, updater,
                   doj_thread>>

\* `processed_count += 1` and `whale_count += 1`
Counted(counts, whale) ==
    Some([processed_count |-> counts[1].processed_count + 1,
          whale_count |-> counts[1].whale_count + (IF whale THEN 1 ELSE 0)])

\* The loop body for the next transaction up to the DOJ test of line 558,
\* which is reached by a whale transaction that no exchange test matched.
\* An exception leaves the loop for the except branch.  With no
\* transaction left the loop ends and line 584 logs the counters.  The
\* record whale_tx itself is the matter of the classifier model.
MainTx ==
    /\ main_thread.pc = "tx"
    /\ IF main_thread.transactions = <<>>
          THEN main_thread' = [main_thread EXCEPT !.pc = "log",
                                                  !.mid_merge = FALSE]
          ELSE LET r == track_whale_tx(Head(main_thread.transactions), {})
                   next == [main_thread EXCEPT !.mid_merge = FALSE]
               IN  main_thread' =
                     IF r.raised
                        THEN [MainCaught EXCEPT
                                 !.counts =
                                    Counted(main_thread.counts,
                                            CountedAsWhale(
                                              Head(main_thread.transactions)))]
                     ELSE IF r.ret = None
                        THEN [next EXCEPT !.transactions = Tail(@),
                                          !.counts = Counted(@, FALSE)]
                     ELSE IF r.ret[1].tx_type # TrackLabels.other
                        THEN [next EXCEPT !.transactions = Tail(@),
                                          !.counts = Counted(@, TRUE)]
                     ELSE [next EXCEPT !.pc = "sender",
                                       !.counts = Counted(@, TRUE)]
    /\ UNCHANGED <<registryVars, cursorVars, classifyVars, statsVars, alert,
                   updater,
                   doj_thread>>

\* `sender in self.known_addresses['doj']['addresses']`: the list is read
\* and searched.  A hit ends the test; a miss goes on to the receiver.
MainReadSender ==
    /\ main_thread.pc = "sender"
    /\ LET t == Head(main_thread.transactions)
           list == doj_addresses
           read == [main_thread EXCEPT
                       !.mid_merge = (doj_thread.pc = "assign")]
       IN  main_thread' =
              IF GetAddr(t.inputs[1][1]) \in ListItems(list)
                 THEN [read EXCEPT !.pc = "tx", !.transactions = Tail(@)]
                 ELSE [read EXCEPT !.pc = "receiver"]
    /\ UNCHANGED <<registryVars, cursorVars, classifyVars, statsVars, alert,
                   updater,
                   doj_thread>>

\* `or receiver in self.known_addresses['doj']['addresses']`: the list is
\* read again; then the record is made and printed and the statistics are
\* updated.
MainReadReceiver ==
    /\ main_thread.pc = "receiver"
    /\ main_thread' =
          [main_thread EXCEPT !.pc = "tx", !.transactions = Tail(@),
                              !.mid_merge = (doj_thread.pc = "assign")]
    /\ UNCHANGED <<registryVars, cursorVars, classifyVars, statsVars, alert,
                   updater,
                   doj_thread>>

\* Line 585, outside `if block_hash:`: the counters are logged, which raises
\* UnboundLocalError while no block has been accepted; then, or in the
\* except branch, `time.sleep(30)`.
MainLog ==
    /\ main_thread.pc = "log"
    /\ main_thread' =
          IF main_thread.counts = None
             THEN MainCaught
             ELSE [main_thread EXCEPT !.pc = "sleeping",
                                      !.slept = sleep_between_polls]
    /\ UNCHANGED <<registryVars, cursorVars, classifyVars, statsVars, alert,
                   updater,
                   doj_thread>>

\* The sleep is over: `while True` polls again.
MainWake ==
    /\ main_thread.pc = "sleeping"
    /\ main_thread' = [main_thread EXCEPT !.pc = "poll", !.slept = 0,
                                          !.raised = FALSE,
                                          !.transactions = <<>>]
    /\ UNCHANGED <<registryVars, cursorVars, classifyVars, statsVars, alert,
                   updater,
                   doj_thread>>

MainStep ==
    MainPoll \/ MainTx \/ MainReadSender \/ MainReadReceiver \/ MainLog
        \/ MainWake

NextShared == DojStep \/ MainStep

SpecShared == Init /\ [][NextShared]_vars

(***************************************************************************)
(* The two loops, iteration by iteration: one action is the whole try      *)
(* block of a loop with the sleep that follows it.                         *)
(***************************************************************************)
\* One iteration of monitor_loop.
DojCycle ==
    /\ doj_thread.pc = "update"
    /\ \E pages \in LoopPages, saved \in BOOLEAN :
          LET found == all_new_addresses(pages)
          IN  /\ DojUpdateCycle(found, saved)
              /\ doj_thread' =
                    IF saved
                       THEN [doj_thread EXCEPT
                                !.pc = "sleeping",
                                !.failed = pages[1].raised \/ pages[2].raised,
                                !.slept = sleep_after_update]
                       ELSE DojCaught
    /\ UNCHANGED <<cursorVars, classifyVars, statsVars, alert, updater,
                   main_thread>>

DojLoop ==
    /\ main_thread.pc # "terminated"
    /\ (DojCycle \/ DojWake)

\* The `for tx in transactions` loop from transaction i on: the counters
\* it ends with, and whether it was left by an exception.
RECURSIVE track_from(_, _, _, _)
track_from(i, transactions, counts, doj) ==
    IF i > Len(transactions) THEN [counts |-> counts, raised |-> FALSE]
    ELSE LET r == track_whale_tx(transactions[i], doj)
         IN  IF r.raised
                THEN [counts |-> Counted(counts,
                                         CountedAsWhale(transactions[i])),
                      raised |-> TRUE]
                ELSE track_from(i + 1, transactions,
                                Counted(counts, r.ret # None), doj)

\* One iteration of `while True` in track_whale_transactions.
MainIteration ==
    /\ main_thread.pc = "poll"
    /\ \/ \E h \in ChainAnswers : ObserveCall(h, h)
       \/ ObserveErrorCall
    /\ UNCHANGED prev
    /\ IF cur'.ret = None
          THEN main_thread' =
                  IF main_thread.counts = None
                     THEN MainCaught
                     ELSE [main_thread EXCEPT !.pc = "sleeping",
                                              !.transactions = <<>>,
                                              !.slept = sleep_between_polls]
          ELSE \E txs \in LoopBlocks :
                  LET r == track_from(1, txs,
                                      Some([processed_count |-> 0,
                                            whale_count |-> 0]),
                                      ListItems(doj_addresses))
                  IN  main_thread' =
                        IF r.raised
                           THEN [MainCaught EXCEPT !.counts = r.counts,
                                                   !.transactions = txs]
                           ELSE [main_thread EXCEPT
                                    !.pc = "sleeping",
                                    !.counts = r.counts,
                                    !.transactions = txs,
                                    !.slept = sleep_between_polls]
    /\ UNCHANGED <<registryVars, classifyVars, statsVars, alert, updater,
                   doj_thread>>

MainLoop == MainIteration \/ MainWake

NextLoops == DojLoop \/ MainLoop

SpecLoops == Init /\ [][NextLoops]_vars

\* Both threads are scheduled again and again and every sleep ends: a
\* thread that can take a step takes one.
FairLoops == SpecLoops /\ WF_vars(DojLoop) /\ WF_vars(MainLoop)

(***************************************************************************)
(* The main loop alone, transaction by transaction: the blocks of a chain  *)
(* are polled, fetched and run through the loop body, which keeps the      *)
(* statistics.                                                             *)
(***************************************************************************)
\* A transfer of 700 BTC from an unlisted address to itself, ten minutes
\* after the others.
LaterTx == [inputs |-> Some(<<[value |-> Some(NumVal(Sat(700, 0))),
                               addr |-> Some(UnlistedAddr)]>>),
            out |-> Some(<<[value |-> Some(NumVal(Sat(699, 0))),
                            addr |-> Some(UnlistedAddr)]>>),
            hash |-> Some("tx-hash"), time |-> Some(1700000600)]

\* A whale volume with an empty 'out' list: `tx['out'][0]` raises.
NoOutTx == [inputs |-> Some(<<[value |-> Some(NumVal(Sat(600, 0))),
                               addr |-> Some(BinanceHot)]>>),
            out |-> Some(<<>>),
            hash |-> Some("tx-hash"), time |-> Some(1700000000)]

TrackTxs == {WhaleTx, LaterTx, SmallTx, NoOutTx}

\* What the request of get_block_transactions gives: an exception, or a
\* block of one or two transactions.
BlockResponses ==
    {[raised |-> TRUE, tx |-> <<>>]}
        \cup {[raised |-> FALSE, tx |-> <<t>>] : t \in TrackTxs}
        \cup {[raised |-> FALSE, tx |-> <<t, u>>] :
                 t \in TrackTxs, u \in {WhaleTx, LaterTx}}

\* Lines 520-525: get_latest_block is called; for a hash the transactions
\* are fetched and the two counters are set to 0.  `answers` are the
\* (height, hash) pairs the provider may report, `responses` what the
\* request of get_block_transactions may give.
PollAndFetch(answers, responses) ==
    /\ main_thread.pc = "poll"
    /\ \/ \E a \in answers : ObserveCall(a[1], a[2])
       \/ ObserveErrorCall
    /\ UNCHANGED prev
    /\ IF cur'.ret = None
          THEN /\ main_thread' = [main_thread EXCEPT !.pc = "log"]
               /\ UNCHANGED fetch_failed
          ELSE \E response \in responses :
                  /\ main_thread' =
                        [main_thread EXCEPT
                            !.pc = "tx",
                            !.transactions =
                                get_block_transactions(response),
                            !.counts = Some([processed_count |-> 0,
                                             whale_count |-> 0])]
                  /\ fetch_failed' =
                        IF response.raised
                           THEN fetch_failed
                                    \cup {<<cur'.height, cur'.hash>>}
                           ELSE fetch_failed
    /\ UNCHANGED <<registryVars, classifyVars, address_stats, returned,
                   found_now, alert, updater, doj_thread>>

\* The provider follows a chain whose block at height h has hash h: it
\* reports the block it reported last or the next one.
TrackPoll == PollAndFetch({<<h, h>> : h \in ChainAnswers}, BlockResponses)

\* Lines 527-582: the loop body for the next transaction, the statistics
\* included.  An exception leaves the loop for the except branch.  With no
\* transaction left the loop ends and line 584 logs the counters.
TrackTx ==
    /\ main_thread.pc = "tx"
    /\ IF main_thread.transactions = <<>>
          THEN /\ main_thread' = [main_thread EXCEPT !.pc = "log"]
               /\ UNCHANGED <<classifyVars, address_stats>>
          ELSE LET t == Head(main_thread.transactions)
                   doj == ListItems(doj_addresses)
                   r == track_whale_tx(t, doj)
               IN  /\ tx' = t
                   /\ whale_tx' = r
                   /\ address_stats' = stats_after(t, doj, address_stats)
                   /\ main_thread' =
                        IF r.raised
                           THEN [MainCaught EXCEPT
                                    !.counts = Counted(main_thread.counts,
                                                       CountedAsWhale(t))]
                           ELSE [main_thread EXCEPT
                                    !.transactions = Tail(@),
                                    !.counts = Counted(@, r.ret # None)]
                   /\ UNCHANGED result
    /\ UNCHANGED <<registryVars, cursorVars, fetch_failed, returned,
                   found_now, alert, updater, doj_thread>>

NextTrack == TrackPoll \/ TrackTx \/ MainLog \/ MainWake

SpecTrack == Init /\ [][NextTrack]_vars

(***************************************************************************)
(* The main loop with a provider that may report any height with any hash, *)
(* in any order, and a fetch that fails or gives one whale transaction.    *)
(***************************************************************************)
SkipResponses == {[raised |-> TRUE, tx |-> <<>>],
                  [raised |-> FALSE, tx |-> <<WhaleTx>>]}

\* Any of the heights 0..MaxSkipHeight with any of two hashes.
SkipAnswers == (0..MaxSkipHeight) \X (1..2)

SkipPoll == PollAndFetch(SkipAnswers, SkipResponses)

NextSkip == SkipPoll \/ TrackTx \/ MainLog \/ MainWake

SpecSkip == Init /\ [][NextSkip]_vars

(***************************************************************************)
(* Restarts: cycles of the updater whose pages list one of two addresses   *)
(* with its case or nothing, restarts of the process, and whale transfers  *)
(* from one address, to the other or from an exchange that are classified  *)
(* in between.  The addresses the scans of the running process have found  *)
(* are kept.                                                               *)
(***************************************************************************)
RestartPages ==
    {<<[raised |-> FALSE,
        candidates |-> <<[address |-> DojAddr1, verified |-> TRUE,
                          matches |-> <<CaseA>>]>>],
       [raised |-> FALSE, candidates |-> <<>>]>>,
     <<[raised |-> FALSE, candidates |-> <<>>],
       [raised |-> FALSE,
        candidates |-> <<[address |-> DojAddr2, verified |-> TRUE,
                          matches |-> <<CaseB>>]>>]>>,
     <<[raised |-> FALSE, candidates |-> <<>>], PageDown>>}

RestartCycle ==
    /\ \E pages \in RestartPages, saved \in BOOLEAN :
          LET found == all_new_addresses(pages)
          IN  /\ DojUpdateCycle(found, saved)
              /\ updater' =
                    [slept |-> IF saved THEN sleep_after_update
                                        ELSE sleep_after_error,
                     met |-> Met(pages, found, address_history.addresses,
                                 doj_addresses)]
              /\ found_now' = found_now \cup ListItems(FoundAddresses(found))
    /\ UNCHANGED <<cursorVars, classifyVars, address_stats, fetch_failed,
                   returned, alert, threadVars>>

\* A transaction of a block is handed to process_transaction and to the
\* loop body.
ClassifyDoj ==
    /\ \E t \in {DojSendTx, DojRecvTx, WhaleTx} :
          /\ tx' = t
          /\ result' = process_transaction(t, ListItems(doj_addresses))
          /\ whale_tx' = track_whale_tx(t, ListItems(doj_addresses))
    /\ UNCHANGED <<cursorVars, registryVars, loopVars, statsVars>>

NextRestart == RestartCycle \/ Restart \/ ClassifyDoj

SpecRestart == Init /\ [][NextRestart]_vars

(***************************************************************************)
(* Claims about the block cursor.                                          *)
(***************************************************************************)
\* The step is an answered get_latest_block call.
AnsweredCall == cursorVars' # cursorVars /\ cur'.kind = "ok"

\* C1: when an answered call returns the hash and the next call is answered
\* with the same height and hash, that next call returns None, whether the
\* first of the two was the bootstrap call or not.
C1_SameBlockTwice ==
    (/\ prev.kind = "ok" /\ cur.kind = "ok"
     /\ prev.height = cur.height /\ prev.hash = cur.hash
     /\ prev.ret = Some(prev.hash))
        => cur.ret = None

\* C1 witness: the bootstrap call returned its hash and the same block,
\* reported again, was suppressed.
C1_Witness ==
    /\ prev.kind = "ok" /\ prev.first /\ prev.ret = Some(prev.hash)
    /\ cur.kind = "ok" /\ cur.height = prev.height /\ cur.hash = prev.hash
    /\ cur.ret = None

\* C2: the first answered call, made while last_block_height is None,
\* returns the reported hash whatever the height is and sets
\* last_block_height to that height.
C2_Bootstrap ==
    cur.first => /\ cur.ret = Some(cur.hash)
                 /\ last_block_height = Some(cur.height)

\* C2 witness: a bootstrap call at the lowest height, newer than nothing.
C2_Witness ==
    /\ cur.kind = "ok" /\ cur.first /\ cur.height = 0
    /\ cur.ret = Some(cur.hash) /\ last_block_height = Some(0)

\* C3 as stated: once 1001 distinct hashes have been reported, a report of
\* the first hash again returns that hash.
C3_Original ==
    [][(/\ AnsweredCall
        /\ repeats = 0
        /\ Cardinality(seen) >= max_processed_blocks + 1
        /\ Some(cur'.hash) = first_hash)
            => cur'.ret = Some(cur'.hash)]_vars

\* C3 amended: an insert that finds more than max_processed_blocks hashes in
\* the set clears all of them in one flush; and once 1001 distinct hashes
\* have been reported, a report of the first hash again returns that hash if
\* its height is greater than last_block_height and None if it is not.
C3_Amended ==
    [][/\ (/\ AnsweredCall
           /\ Cardinality(processed_blocks) > max_processed_blocks
           /\ processed_blocks' # processed_blocks)
              => processed_blocks' = {cur'.hash}
       /\ (/\ AnsweredCall
           /\ repeats = 0
           /\ Cardinality(seen) >= max_processed_blocks + 1
           /\ Some(cur'.hash) = first_hash)
              => cur'.ret = IF cur'.height > last_block_height[1]
                               THEN Some(cur'.hash) ELSE None]_vars

\* C3 witness: after 1001 distinct hashes the first hash was reported again
\* with a greater height and was returned.
C3_Witness ==
    /\ cur.kind = "ok" /\ ~cur.first /\ Some(cur.hash) = first_hash
    /\ repeats = 1
    /\ Cardinality(seen) >= max_processed_blocks + 1
    /\ cur.ret = Some(cur.hash)

\* C4 as stated: processed_blocks never holds more than
\* max_processed_blocks hashes.
C4_Original == Cardinality(processed_blocks) <= max_processed_blocks

\* C4 amended: processed_blocks never holds more than
\* max_processed_blocks + 1 hashes: the set is flushed before an insert only
\* when it already holds more than max_processed_blocks.
C4_Amended == Cardinality(processed_blocks) <= max_processed_blocks + 1

\* C4 witness: the set holds max_processed_blocks + 1 hashes.
C4_Witness == Cardinality(processed_blocks) = max_processed_blocks + 1

\* C5: an answered call after the bootstrap whose height is not greater than
\* last_block_height returns None and leaves last_block_height and
\* processed_blocks unchanged; last_block_height never decreases.
C5_NotNewer ==
    [][/\ (/\ AnsweredCall
           /\ last_block_height # None
           /\ cur'.height <= last_block_height[1])
              => /\ cur'.ret = None
                 /\ UNCHANGED <<last_block_height, processed_blocks>>
       /\ last_block_height # None
              => /\ last_block_height' # None
                 /\ last_block_height'[1] >= last_block_height[1]]_vars

\* C5 witness: a different hash at the height of the block just accepted was
\* suppressed, and is not in processed_blocks.
C5_Witness ==
    /\ prev.kind = "ok" /\ prev.ret = Some(prev.hash)
    /\ cur.kind = "ok" /\ ~cur.first
    /\ cur.height = prev.height /\ cur.hash # prev.hash
    /\ cur.hash \notin processed_blocks
    /\ last_block_height = Some(prev.height)
    /\ cur.ret = None

(***************************************************************************)
(* Claims about the classifier.                                            *)
(***************************************************************************)
\* Every value of the list is a number.
AllNumbers(items) == \A i \in DOMAIN items : GetValue(items[i]).num

\* sum(inputs.value) and sum(outputs.value) of a transaction whose values
\* are numbers.
InputVolume(t) == SumValues(GetList(t.inputs)).total
OutputVolume(t) == SumValues(GetList(t.out)).total

\* Both lists are there with at least one item, and every value is a number.
WellFormed(t) ==
    /\ t.inputs # None /\ t.inputs[1] # <<>> /\ AllNumbers(t.inputs[1])
    /\ t.out # None /\ t.out[1] # <<>> /\ AllNumbers(t.out[1])

\* The step is a classification.
ClassifyStep == classifyVars' # classifyVars /\ result'.done

EntitiesOfType(type) ==
    {e \in DOMAIN known_addresses_static : known_addresses_static[e].type = type}

ExchangeAddresses ==
    UNION {known_addresses_static[e].addresses : e \in EntitiesOfType("exchange")}

\* The classification rules of the design, over entity classes.
RuleType(sender, receiver, government) ==
    IF sender \in ExchangeAddresses THEN "WITHDRAWAL"
    ELSE IF receiver \in ExchangeAddresses THEN "DEPOSIT"
    ELSE IF sender \in government \/ receiver \in government THEN "DOJ_TRANSFER"
    ELSE "UNKNOWN"

\* The type a label of either path stands for.
Category(tx_type) ==
    IF tx_type \in {"witdrawal", "WITHDRAWAL"} THEN "WITHDRAWAL"
    ELSE IF tx_type \in {"deposit", "DEPOSIT"} THEN "DEPOSIT"
    ELSE IF tx_type \in {"doj transfer", "DOJ TRANSFER"} THEN "DOJ_TRANSFER"
    ELSE "UNKNOWN"

\* C7: the type of a whale transaction follows the ordered rules over entity
\* classes: sender of any exchange gives WITHDRAWAL, else receiver of any
\* exchange gives DEPOSIT, else a government party gives DOJ_TRANSFER, else
\* UNKNOWN.
C7_RulesOverClasses ==
    [][(ClassifyStep /\ result'.ret # None /\ whale_tx'.ret # None) =>
          LET rec == result'.ret[1]
              expected == RuleType(rec.sender, rec.receiver,
                                   ListItems(doj_addresses))
          IN  /\ Category(rec.tx_type) = expected
              /\ Category(whale_tx'.ret[1].tx_type) = expected]_vars

\* C8: a whale transaction from an exchange address to a government address
\* is a WITHDRAWAL, whatever the merges made of the registry.
C8_ExchangeToGovernment ==
    [][(/\ ClassifyStep /\ result'.ret # None /\ whale_tx'.ret # None
        /\ result'.ret[1].sender \in ExchangeAddresses
        /\ result'.ret[1].receiver \in ListItems(doj_addresses))
          => /\ Category(result'.ret[1].tx_type) = "WITHDRAWAL"
             /\ Category(whale_tx'.ret[1].tx_type) = "WITHDRAWAL"]_vars

\* C9: a whale transaction whose 'out' list is missing or empty is not
\* dropped: a record comes back with receiver "Unknown" and a total output
\* of 0, so that the fee is the input volume.
C9_MissingOutputs ==
    (/\ result.done
     /\ tx.inputs # None /\ tx.inputs[1] # <<>> /\ AllNumbers(tx.inputs[1])
     /\ ~LessSat(InputVolume(tx), ThresholdSat)
     /\ (tx.out = None \/ tx.out = Some(<<>>)))
        => /\ ~result.raised
           /\ result.ret # None
           /\ result.ret[1].receiver = "Unknown"
           /\ result.ret[1].fee_btc = ToBtc(InputVolume(tx), satoshi_to_btc)

\* C10: the fee of a record is total input minus total output over 10^8,
\* negative when the outputs sum to more than the inputs, and a well-formed
\* whale transaction with such outputs still gives a record.
C10_FeeNotClamped ==
    /\ result.ret # None =>
          LET fee == result.ret[1].fee_btc
              diff == SubSat(InputVolume(tx), OutputVolume(tx))
          IN  /\ fee = [neg |-> diff.neg, btc |-> diff.btc, frac |-> diff.sat,
                        den |-> satoshi_to_btc]
              /\ LessSat(InputVolume(tx), OutputVolume(tx)) <=> fee.neg
              /\ whale_tx.ret # None
              /\ whale_tx.ret[1].fee_btc =
                    [sign |-> IF diff.neg THEN "-" ELSE "",
                     whole |-> diff.btc, decimals |-> diff.sat]
    /\ (/\ result.done /\ WellFormed(tx)
        /\ ~LessSat(InputVolume(tx), ThresholdSat)
        /\ LessSat(InputVolume(tx), OutputVolume(tx)))
          => result.ret # None

\* C10 witness: a record with a negative fee.
C10_Witness ==
    /\ result.ret # None
    /\ result.ret[1].fee_btc.neg
    /\ LessSat(InputVolume(tx), OutputVolume(tx))


(***************************************************************************)
(* Claims about the notifier.                                              *)
(***************************************************************************)
\* The transactions of the block of the latest check_whale_alert call that
\* process_transaction turns into a record.
WhalesOf(txs, doj) ==
    {i \in DOMAIN txs : process_transaction(txs[i], doj).ret # None}

\* C11: post is called exactly once for each whale transaction of an
\* accepted block (k whale transactions, k calls), and a post that failed
\* is not repeated.
C11_OncePerWhale ==
    alert.block_hash # None =>
        /\ Len(alert.posts) =
              Cardinality(WhalesOf(alert.txs, ListItems(doj_addresses)))
        /\ \A i, j \in DOMAIN alert.posts :
              alert.posts[i].message = alert.posts[j].message => i = j

(***************************************************************************)
(* Claims about the registry updater.                                      *)
(***************************************************************************)
\* C12: once an address is a key of the history its entry never changes,
\* whatever later cycles, or later matches of the same cycle, find for it.
C12_WriteOnce ==
    [][updater'.slept # 0 =>
          \A a \in HistoryKeys(address_history.addresses) :
              /\ a \in HistoryKeys(address_history'.addresses)
              /\ InfoOf(address_history'.addresses, a) =
                    InfoOf(address_history.addresses, a)]_vars

\* A cycle found a key of the history with another case, and found one
\* address twice with two cases.
C12_Witness == {"other case", "twice"} \subseteq updater.met

\* The step is a cycle of monitor_loop.
CycleStep == updater'.slept # 0

\* C13 as stated: a cycle whose only candidate is a valid address without
\* case metadata leaves the registry and the history store unchanged.
C13_Original ==
    [][(CycleStep /\ "only uncased" \in updater'.met) =>
          /\ ListItems(doj_addresses') = ListItems(doj_addresses)
          /\ address_history' = address_history]_vars

\* C13, amended: such a cycle leaves the addresses of the DOJ list and the
\* address entries of the history unchanged; it still sets last_update and,
\* when the save goes through, rewrites the history file.
C13_Amended ==
    [][(CycleStep /\ "only uncased" \in updater'.met) =>
          /\ ListItems(doj_addresses') = ListItems(doj_addresses)
          /\ address_history'.addresses = address_history.addresses
          /\ address_history'.last_update = Now
          /\ updater'.slept = sleep_after_update =>
                history_file' = Written(address_history')]_vars

\* Such a cycle ran when the history and the DOJ list held an address.
C13_Witness ==
    /\ "only uncased" \in updater.met
    /\ address_history.addresses # <<>>
    /\ doj_addresses # <<>>

\* C14: in each cycle an address is merged into the DOJ list only if that
\* cycle newly inserted it into the history; an address that was a key of
\* the history already is not merged by the cycle.
C14_OnlyNewlyRecorded ==
    [][CycleStep =>
          (ListItems(doj_addresses') \ ListItems(doj_addresses))
              \subseteq (HistoryKeys(address_history'.addresses)
                            \ HistoryKeys(address_history.addresses))]_vars

\* C15: the merge into the DOJ list is an idempotent union: for every list
\* the program reaches and every found list, the merged list holds no
\* address twice, holds every address the list held, and merging the same
\* found list into it once more gives the same addresses, once each.
C15_IdempotentUnion ==
    \A found \in MergeFound :
        \A once \in MergeDoj(doj_addresses, found) :
            /\ Cardinality(ListItems(once)) = Len(once)
            /\ ListItems(doj_addresses) \subseteq ListItems(once)
            /\ ListItems(once) =
                  ListItems(doj_addresses) \cup ListItems(FoundAddresses(found))
            /\ \A twice \in MergeDoj(once, found) :
                  /\ ListItems(twice) = ListItems(once)
                  /\ Len(twice) = Len(once)

\* A cycle merged addresses that were all in the list, which holds two.
C15_Witness ==
    /\ "all in bucket" \in updater.met
    /\ updater.slept = sleep_after_update
    /\ Len(doj_addresses) = 2

(***************************************************************************)
(* Claims about the two loops.                                             *)
(***************************************************************************)
\* The main thread is about to read the DOJ list, and the step reads it.
AtRead == main_thread.pc \in {"sender", "receiver"}
ReadStep == AtRead /\ main_thread' # main_thread

\* C16: under any interleaving of the two threads, each read of the DOJ
\* list by the loop body finds the whole list of before the merge or the
\* whole list of after it, never one that holds only a part of what the
\* merge adds; and the read is never kept waiting.
C16_ReadsSeeWholeMerges ==
    /\ [][ReadStep => ListItems(doj_addresses) \in {doj_thread.pre,
                                                     doj_thread.post}]_vars
    /\ [](AtRead => ENABLED (MainReadSender \/ MainReadReceiver))

\* A read took place between the building of a longer list and its
\* assignment.
C16_Witness ==
    /\ main_thread.mid_merge
    /\ doj_thread.pc = "assign"
    /\ doj_thread.pre # doj_thread.post

\* The step is an iteration of monitor_loop, up to its sleep.
DojCycleStep == doj_thread.pc = "update" /\ doj_thread'.pc = "sleeping"

\* C17: a cycle that succeeds is followed by the 6-hour sleep, a cycle in
\* which any failure occurs by the 5-minute sleep, and either way the
\* updater later starts another cycle.
C17_Cadence ==
    /\ [][DojCycleStep =>
             doj_thread'.slept = IF doj_thread'.failed
                                    THEN sleep_after_error
                                    ELSE sleep_after_update]_vars
    /\ (doj_thread.pc = "sleeping" ~> doj_thread.pc = "update")

\* C18: a failure of the history flush (the step of a cycle that leaves the
\* file without the history in memory) is advisory: the cycle is not
\* aborted and ends in the 6-hour sleep, the history in memory loses no
\* address, and the addresses the cycle recorded are merged into the DOJ
\* list in that cycle all the same.
C18_FlushAdvisory ==
    [][(CycleStep /\ history_file' # Written(address_history')) =>
          /\ updater'.slept = sleep_after_update
          /\ HistoryKeys(address_history.addresses)
                \subseteq HistoryKeys(address_history'.addresses)
          /\ HistoryKeys(address_history'.addresses)
                \subseteq ListItems(doj_addresses')
                            \cup HistoryKeys(address_history.addresses)]_vars

\* The step is one iteration of `while True` in track_whale_transactions.
MainIterationStep == main_thread.pc = "poll" /\ main_thread'.pc # "poll"

\* C19: an iteration whose get_latest_block call failed leaves
\* last_block_height and processed_blocks as they were and ends in the
\* 30-second sleep; the loop never terminates and every sleep is followed by
\* another poll; and in the iteration after the failed one, an answered poll
\* that returns a new block has every fetched transaction of the block run
\* through the loop body without an exception.
C19_PollFailureRecovers ==
    /\ [][(MainIterationStep /\ cur'.kind = "error") =>
             /\ main_thread'.pc = "sleeping"
             /\ main_thread'.slept = sleep_between_polls
             /\ last_block_height' = last_block_height
             /\ processed_blocks' = processed_blocks]_vars
    /\ [](main_thread.pc # "terminated")
    /\ (main_thread.pc = "sleeping" ~> main_thread.pc = "poll")
    /\ [][(MainIterationStep /\ cur.kind = "error" /\ cur'.ret # None) =>
             /\ ~main_thread'.raised
             /\ main_thread'.counts[1].processed_count
                   = Len(main_thread'.transactions)]_vars

\* C20: whatever exception an iteration of track_whale_transactions or of
\* monitor_loop raises, neither thread terminates, and after an iteration of
\* one loop has failed the other loop goes on starting iterations and
\* finishing them.
C20_FailIndependently ==
    /\ [](main_thread.pc # "terminated" /\ doj_thread.pc # "terminated")
    /\ [](main_thread.raised =>
             /\ <>(doj_thread.pc = "update")
             /\ <>(doj_thread.pc = "sleeping"))
    /\ [](doj_thread.failed =>
             /\ <>(main_thread.pc = "poll")
             /\ <>(main_thread.pc = "sleeping"))

\* C20 witness: both loops are in the sleep of their except branch, the
\* main loop after a transaction of a fetched block raised, the updater
\* after save_history raised.
C20_Witness ==
    /\ main_thread.pc = "sleeping" /\ main_thread.raised
    /\ main_thread.transactions # <<>>
    /\ doj_thread.pc = "sleeping" /\ doj_thread.failed
    /\ doj_thread.slept = sleep_after_error

(***************************************************************************)
(* Claims about the statistics and the loop body.                          *)
(***************************************************************************)
\* The step is the loop body of track_whale_transactions for the next
\* transaction of the fetched block.
LoopBodyStep ==
    /\ main_thread.pc = "tx"
    /\ main_thread.transactions # <<>>
    /\ main_thread' # main_thread

\* No counter and no total of address a is smaller after the step.
NotDecreased(a) ==
    /\ address_stats'[a].sent_count >= address_stats[a].sent_count
    /\ address_stats'[a].received_count >= address_stats[a].received_count
    /\ ~LessSat(address_stats'[a].total_sent, address_stats[a].total_sent)
    /\ ~LessSat(address_stats'[a].total_received,
                address_stats[a].total_received)

\* C21: the loop body that makes a whale record of a transaction adds 1 to
\* the sender's sent_count and the input volume to its total_sent, adds 1 to
\* the receiver's received_count and the volume to its total_received, sets
\* last_seen of both to the timestamp of the transaction, changes nothing
\* else of the two entries and no entry of another address; and no step
\* makes a counter or a total smaller.
C21_StatsUpdate ==
    /\ [][(LoopBodyStep /\ whale_tx'.ret # None) =>
             LET s == whale_tx'.ret[1].sender
                 r == whale_tx'.ret[1].receiver
                 volume == InputVolume(tx')
                 old == address_stats
                 new == address_stats'
             IN  /\ new[s].sent_count = old[s].sent_count + 1
                 /\ new[s].total_sent = AddSat(old[s].total_sent, volume)
                 /\ new[r].received_count = old[r].received_count + 1
                 /\ new[r].total_received
                       = AddSat(old[r].total_received, volume)
                 /\ new[s].last_seen = Some(Timestamp(tx'))
                 /\ new[r].last_seen = Some(Timestamp(tx'))
                 /\ s # r => /\ new[s].received_count = old[s].received_count
                             /\ new[s].total_received = old[s].total_received
                             /\ new[r].sent_count = old[r].sent_count
                             /\ new[r].total_sent = old[r].total_sent
                 /\ \A a \in StatsAddrs \ {s, r} : new[a] = old[a]]_vars
    /\ [][\A a \in StatsAddrs : NotDecreased(a)]_vars

\* C21 witness: an unlisted address has received from Binance and has sent
\* to itself ten minutes later; both entries hold what the two transfers
\* add up to.
C21_Witness ==
    /\ address_stats[BinanceHot].sent_count = 1
    /\ address_stats[BinanceHot].total_sent = Sat(600, 0)
    /\ address_stats[UnlistedAddr].received_count = 2
    /\ address_stats[UnlistedAddr].total_received = Sat(1300, 0)
    /\ address_stats[UnlistedAddr].sent_count = 1
    /\ address_stats[UnlistedAddr].last_seen = Some(Timestamp(LaterTx))
    /\ whale_tx.ret # None /\ tx = LaterTx

\* C22: when the loop body raises on a malformed transaction, the exception
\* does not leave the loop: the transaction is skipped and the loop goes on
\* with the remaining transactions of the block, which are classified,
\* printed and counted in the statistics.
C22_MalformedSkipped ==
    [][(LoopBodyStep /\ whale_tx'.raised) =>
          /\ ~main_thread'.raised
          /\ main_thread'.pc = "tx"
          /\ main_thread'.transactions = Tail(main_thread.transactions)]_vars

\* The step is a get_latest_block call of the main loop, with the fetch
\* that follows a returned hash.
PollStep == main_thread.pc = "poll" /\ main_thread' # main_thread

\* C23: when get_block_transactions fails for the block get_latest_block has
\* just returned, last_block_height is already the height of that block and
\* the loop has no transaction of it; whenever the provider reports that
\* block (its hash at its height) again, get_latest_block returns None; and
\* the loop body never runs for a transaction of that block.
C23_FailedFetchSkips ==
    /\ [][(PollStep /\ fetch_failed' # fetch_failed) =>
             /\ <<cur'.height, cur'.hash>> \in fetch_failed'
             /\ last_block_height' = Some(cur'.height)
             /\ main_thread'.transactions = <<>>]_vars
    /\ [][(PollStep /\ <<cur'.height, cur'.hash>> \in fetch_failed) =>
             cur'.ret = None]_vars
    /\ [][LoopBodyStep => <<cur.height, cur.hash>> \notin fetch_failed]_vars

\* C23 witness: the fetch of a block failed, a later block was fetched and
\* its whale transaction was counted, and the provider has now reported the
\* first block again, which was not returned.
C23_Witness ==
    /\ cur.kind = "ok" /\ cur.ret = None
    /\ <<cur.height, cur.hash>> \in fetch_failed
    /\ cur.height < last_block_height[1]
    /\ address_stats[BinanceHot].sent_count = 1
    /\ main_thread.pc = "sleeping"

(***************************************************************************)
(* More claims about the block cursor.                                     *)
(***************************************************************************)
\* C24: with a provider that reports every hash with one height, a call
\* that returns a hash returns one that no earlier call returned, also
\* after processed_blocks has been flushed; and every returned block after
\* the bootstrap has a height greater than the heights of all blocks
\* returned before.
C24_NeverTwice ==
    [][(AnsweredCall /\ cur'.ret # None) =>
          \A b \in returned : b[2] # cur'.hash /\ b[1] < cur'.height]_vars

\* C24 witness: processed_blocks has been flushed, more than
\* max_processed_blocks blocks have been returned, and the first recorded
\* block, reported again after the flush, was not returned.
C24_Witness ==
    /\ Cardinality(returned) > max_processed_blocks + 1
    /\ Cardinality(processed_blocks) = 1
    /\ cur.kind = "ok" /\ cur.hash = 1 /\ cur.ret = None
    /\ <<1, 1>> \in returned

\* The blocks returned so far that have the hash of the bootstrap call.
BootstrapReturns == {b \in returned : Some(b[2]) = first_hash}

C26_BucketInHistory ==
    \A a \in ListItems(doj_addresses) :
        /\ a \in HistoryKeys(address_history.addresses)
        /\ DojInfo(address_history.addresses, a) # None
        /\ DojInfo(address_history.addresses, a)[1].address = a

\* C26 witness: the DOJ list holds two addresses, the updater is in a later
\* cycle between its update of the history and the assignment of the list,
\* and the main thread is about to search the list.
C26_Witness ==
    /\ Len(doj_addresses) = 2
    /\ doj_thread.pc = "merge"
    /\ main_thread.pc = "sender"

\* The step starts the process again after a cycle has run.
RestartStep == updater # NoCycle /\ updater' = NoCycle

\* The classification took the transaction for a DOJ transfer.
DojTransfer(r, labels) == r.ret # None /\ r.ret[1].tx_type = labels.doj

\* C27: a restart leaves the DOJ list empty, whatever addresses load_history
\* has read into the history; and a transaction is classified as a DOJ
\* transfer, by either path, only when a scan of the running process has
\* found its sender or its receiver.
C27_NotLoadedIntoBucket ==
    /\ [][RestartStep =>
             /\ doj_addresses' = <<>>
             /\ address_history' = history_file.content]_vars
    /\ [][(ClassifyStep /\ (\/ DojTransfer(whale_tx', TrackLabels)
                            \/ DojTransfer(result', ProcessLabels))) =>
             \/ GetAddr(tx'.inputs[1][1]) \in found_now
             \/ GetAddr(tx'.out[1][1]) \in found_now]_vars

\* C27 witness: the process was restarted, the loaded history holds an
\* address the process has not found yet, a transfer from it was classified
\* as UNKNOWN, and a cycle has since found the other address.
C27_Witness ==
    /\ DojAddr1 \in HistoryKeys(address_history.addresses)
    /\ DojAddr1 \notin found_now
    /\ DojAddr2 \in found_now
    /\ tx = DojSendTx
    /\ whale_tx.ret # None /\ whale_tx.ret[1].tx_type = TrackLabels.other
    /\ result.ret # None /\ result.ret[1].tx_type = ProcessLabels.other

(***************************************************************************)
(* The two classification paths.                                           *)
(***************************************************************************)
\* C28: for a well-formed transaction and any DOJ list, process_transaction
\* returns a record exactly when the loop body of track_whale_transactions
\* counts the transaction as a whale and makes its record, neither raises,
\* and the two records have the same sender, the same receiver, the same
\* volume and fee (a number in one, its text of 8 decimals in the other) and
\* types of the same category.
C28_PathsAgree ==
    (result.done /\ whale_tx.done /\ WellFormed(tx)) =>
        /\ ~result.raised /\ ~whale_tx.raised
        /\ result.ret # None <=> whale_tx.ret # None
        /\ result.ret # None <=> CountedAsWhale(tx)
        /\ result.ret # None =>
              LET p == result.ret[1]
                  w == whale_tx.ret[1]
              IN  /\ p.sender = w.sender
                  /\ p.receiver = w.receiver
                  /\ p.btc_volume = Float8(w.btc_volume)
                  /\ p.fee_btc = Float8(w.fee_btc)
                  /\ p.tx_type \in {ProcessLabels[k] :
                                        k \in DOMAIN ProcessLabels}
                  /\ w.tx_type \in {TrackLabels[k] :
                                        k \in DOMAIN TrackLabels}
                  /\ Category(p.tx_type) = Category(w.tx_type)

\* C28 witness: both paths made a record of a well-formed transfer from a
\* DOJ address whose outputs sum to 599.9 BTC, and both typed it as a DOJ
\* transfer.
C28_Witness ==
    /\ WellFormed(tx)
    /\ result.ret # None /\ whale_tx.ret # None
    /\ result.ret[1].sender = DojAddr1
    /\ result.ret[1].tx_type = ProcessLabels.doj
    /\ whale_tx.ret[1].tx_type = TrackLabels.doj
    /\ whale_tx.ret[1].fee_btc.decimals # 0

=============================================================================
